---------------------------- MODULE Spec2Model ----------------------------
(***************************************************************************)
(* A model of the resume screener backend (src/app.py): the three tables   *)
(* Resume, Job and Comparison, the HTTP handlers that write them, the text *)
(* extraction of /upload_resume and the similarity scorer.                 *)
(*                                                                         *)
(* A text is a sequence of one-character strings.  A score is an integer   *)
(* in units of 1/ScoreUnit of a hundredth of a percent point, so that      *)
(* rounding to two decimals is visible (a rounded score is a multiple of   *)
(* ScoreUnit).                                                             *)
(***************************************************************************)
EXTENDS Integers, Sequences, FiniteSets, TLC

(***************************************************************************)
(* Bounds of the model.                                                    *)
(***************************************************************************)
MaxResumes == 2
MaxJobs == 2
MaxComparisons == 2

(***************************************************************************)
(* Characters and strings (Python str).                                    *)
(***************************************************************************)
\* None where an integer is expected (an id of the JSON body)
None == -1

\* what items[i]["description"] stands for when the key is missing
Missing == <<"KeyError">>

\* request.files without the key 'resume'
NoFile == [present |-> FALSE]

Space == {" ", "\n"}

Letters == {"a", "c", "d", "e", "f", "l", "n", "o", "p", "q", "s", "t", "v",
            "w", "x"}

UpperLetters == {"C", "D", "F", "L", "P", "Q", "S", "V"}

\* str.lower() on one character
LowerChar(c) ==
  CASE c = "C" -> "c"
    [] c = "D" -> "d"
    [] c = "F" -> "f"
    [] c = "L" -> "l"
    [] c = "P" -> "p"
    [] c = "Q" -> "q"
    [] c = "S" -> "s"
    [] c = "V" -> "v"
    [] OTHER -> c

\* str.lower()
Lower(s) == [i \in 1..Len(s) |-> LowerChar(s[i])]

\* str.strip() leaves nothing: the test `not text.strip()`
IsBlank(s) == \A i \in 1..Len(s) : s[i] \in Space

\* str.split(): the maximal runs of non-whitespace characters, in order
RECURSIVE SplitFrom(_, _, _)
SplitFrom(s, i, cur) ==
  IF i > Len(s)
    THEN IF cur = <<>> THEN <<>> ELSE <<cur>>
    ELSE IF s[i] \in Space
      THEN IF cur = <<>> THEN SplitFrom(s, i + 1, <<>>)
                         ELSE <<cur>> \o SplitFrom(s, i + 1, <<>>)
      ELSE SplitFrom(s, i + 1, Append(cur, s[i]))

Split(s) == SplitFrom(s, 1, <<>>)

Range(f) == {f[i] : i \in DOMAIN f}

\* set(text.lower().split())
WordSet(s) == Range(Split(Lower(s)))

\* sep.join(list)
RECURSIVE Join(_, _)
Join(list, sep) ==
  IF list = <<>> THEN <<>>
  ELSE IF Len(list) = 1 THEN list[1]
  ELSE list[1] \o sep \o Join(Tail(list), sep)

\* all orders in which the elements of a finite set can be listed
\* (list(set): the iteration order of a Python set of str is not fixed)
RECURSIVE Orders(_)
Orders(S) ==
  IF S = {} THEN {<<>>}
  ELSE UNION {{<<x>> \o rest : rest \in Orders(S \ {x})} : x \in S}

(***************************************************************************)
(* TfidfVectorizer(stop_words='english') on a corpus of two documents, and *)
(* cosine_similarity of the two rows.                                      *)
(***************************************************************************)
\* \w of the default token_pattern r"(?u)\b\w\w+\b"
IsWordChar(c) == c \in Letters \cup UpperLetters

\* the part of sklearn's ENGLISH_STOP_WORDS the model's texts can hit
StopWords == {<<"a", "n", "d">>}

\* the maximal runs of word characters, in order
RECURSIVE RunsFrom(_, _, _)
RunsFrom(s, i, cur) ==
  IF i > Len(s)
    THEN IF cur = <<>> THEN <<>> ELSE <<cur>>
    ELSE IF ~IsWordChar(s[i])
      THEN IF cur = <<>> THEN RunsFrom(s, i + 1, <<>>)
                         ELSE <<cur>> \o RunsFrom(s, i + 1, <<>>)
      ELSE RunsFrom(s, i + 1, Append(cur, s[i]))

\* the analyzer: lowercase, tokens of two or more word characters, stop
\* words removed
Analyze(s) ==
  SelectSeq(RunsFrom(Lower(s), 1, <<>>),
            LAMBDA t : Len(t) >= 2 /\ t \notin StopWords)

\* term frequency: how often term t occurs among the tokens
TermCount(tokens, t) == Cardinality({i \in DOMAIN tokens : tokens[i] = t})

\* smooth idf over two documents, ln((1+2)/(1+df)) + 1, as a fixed-point
\* weight: 1 for a term of both documents (df = 2) and ln(1.5) + 1 =
\* 1.40546... ~ 52/37 for a term of one (df = 1)
IdfBoth == 37
IdfOne == 52

Idf(t, docA, docB) ==
  IF t \in Range(docA) /\ t \in Range(docB) THEN IdfBoth ELSE IdfOne

\* the sum of the values of a function with a finite domain
RECURSIVE Sum(_)
Sum(f) ==
  IF DOMAIN f = {} THEN 0
  ELSE LET x == CHOOSE y \in DOMAIN f : TRUE
       IN f[x] + Sum([y \in DOMAIN f \ {x} |-> f[y]])

\* a / b <= c / d for naturals a, c and positive b, d, by the Euclidean
\* algorithm (no product is formed)
RECURSIVE LeqFrac(_, _, _, _)
LeqFrac(a, b, c, d) ==
  LET qa == a \div b
      qc == c \div d
      ra == a % b
      rc == c % d
  IN IF qa # qc THEN qa < qc
     ELSE IF ra = 0 THEN TRUE
     ELSE IF rc = 0 THEN FALSE
     ELSE LeqFrac(d, rc, b, ra)

\* units of the score per hundredth of a percent point
ScoreUnit == 4

\* hundredths of a percent point in 100 percent
Hundredths == 10000

\* the resolution at which a cosine is carried: units of 1/SimRes
SimRes == ScoreUnit * Hundredths

\* the search for a cosine looks beyond 1: up to 1.125
SimTop == SimRes + SimRes \div 8

\* the largest s in lo..hi with (s/SimRes)^2 <= p/n  (n > 0)
RECURSIVE RootSearch(_, _, _, _)
RootSearch(lo, hi, p, n) ==
  IF lo = hi THEN lo
  ELSE LET mid == (lo + hi + 1) \div 2
       IN IF LeqFrac(mid * mid, SimRes * SimRes, p, n)
            THEN RootSearch(mid, hi, p, n)
            ELSE RootSearch(lo, mid - 1, p, n)

\* cosine_similarity(tfidf[0:1], tfidf[1:2])[0][0], in units of 1/SimRes;
\* a row without terms is the zero vector and its cosine is 0
Cosine(docA, docB) ==
  LET vocab == Range(docA) \cup Range(docB)
      wA(t) == TermCount(docA, t) * Idf(t, docA, docB)
      wB(t) == TermCount(docB, t) * Idf(t, docA, docB)
      dot == Sum([t \in vocab |-> wA(t) * wB(t)])
      nA == Sum([t \in vocab |-> wA(t) * wA(t)])
      nB == Sum([t \in vocab |-> wB(t) * wB(t)])
  IN IF nA = 0 \/ nB = 0 THEN 0
     ELSE RootSearch(0, SimTop, dot * dot, nA * nB)

\* a faulty round: the score is left as computed
Round2Off(x) == x

\* round(similarity * 100, 2): similarity * 100 is the cosine read in
\* units of 1/ScoreUnit hundredths; rounded to whole hundredths
Round2(x) == ((x + ScoreUnit \div 2) \div ScoreUnit) * ScoreUnit

\* fit_transform raises ValueError("empty vocabulary ...") when no document
\* has a term left
EmptyVocabulary(resume_text, job_text) ==
  Analyze(resume_text) = <<>> /\ Analyze(job_text) = <<>>

\* the score part of calculate_similarity_with_keywords
SimilarityScore(resume_text, job_text) ==
  Round2(Cosine(Analyze(resume_text), Analyze(job_text)))

\* the keyword part of calculate_similarity_with_keywords, as a set
CommonWords(resume_text, job_text) ==
  WordSet(resume_text) \cap WordSet(job_text)

\* calculate_similarity_with_keywords: it raises, or returns the score and
\* the common words as a list in one of the orders a set can be listed in
calculate_similarity_with_keywords(resume_text, job_text) ==
  IF EmptyVocabulary(resume_text, job_text)
    THEN [raised |-> TRUE, score |-> 0, keywords |-> {}]
    ELSE [raised |-> FALSE,
          score |-> SimilarityScore(resume_text, job_text),
          keywords |-> Orders(CommonWords(resume_text, job_text))]

(***************************************************************************)
(* The texts the model's requests carry.                                   *)
(***************************************************************************)
Sql == <<"s", "q", "l">>
SqlComma == <<"S", "Q", "L", ",">>
Aws == <<"a", "w", "s">>
And == <<"a", "n", "d">>

Words == {Sql, SqlComma, Aws, And}

\* the longest text, in words
MaxWords == 2

\* the texts of n words, single spaces between them
RECURSIVE TextsOf(_)
TextsOf(n) ==
  IF n = 1 THEN Words
  ELSE {t \o <<" ">> \o w : t \in TextsOf(n - 1), w \in Words}

\* every non-empty text of at most MaxWords words
AllTexts == UNION {TextsOf(n) : n \in 1..MaxWords}

SqlAndAws == Sql \o <<" ">> \o And \o <<" ">> \o Aws
SqlCommaAws == SqlComma \o <<" ">> \o Aws
SqlCommaAnd == SqlComma \o <<" ">> \o And
Dev == <<"d", "e", "v">>
Ops == <<"o", "p", "s">>

\* the texts the handlers are given a score for
ScoredTexts == AllTexts \cup {SqlAndAws}

\* the calls of calculate_similarity_with_keywords by the two match
\* handlers, evaluated once per pair of texts
SimilarityTable ==
  [resume_text \in ScoredTexts |->
     [job_text \in ScoredTexts |->
        calculate_similarity_with_keywords(resume_text, job_text)] @@ <<>>]
  @@ <<>>

Similarity(resume_text, job_text) == SimilarityTable[resume_text][job_text]


\* str.endswith(suffix)
EndsWith(s, suffix) ==
  /\ Len(s) >= Len(suffix)
  /\ SubSeq(s, Len(s) - Len(suffix) + 1, Len(s)) = suffix

\* s[:n]
Truncate(s, n) == SubSeq(s, 1, IF Len(s) < n THEN Len(s) ELSE n)

\* `sub in s` for strings
Contains(s, sub) ==
  \E i \in 0..(Len(s) - Len(sub)) : SubSeq(s, i + 1, i + Len(sub)) = sub

(***************************************************************************)
(* The state: the three tables, the deployment's foreign-key enforcement,  *)
(* and the request last handled with its response and the OCR calls made   *)
(* while handling it.                                                      *)
(***************************************************************************)
VARIABLES resumes, jobs, comparisons, foreign_keys, request, response, ocr_calls

vars == <<resumes, jobs, comparisons, foreign_keys, request, response, ocr_calls>>

tables == <<resumes, jobs, comparisons>>

\* the primary key the database gives the next row of a table
NextId(table) ==
  IF table = {} THEN 1
  ELSE (CHOOSE i \in {r.id : r \in table} : \A r \in table : r.id <= i) + 1

Ids(table) == {r.id : r \in table}

(***************************************************************************)
(* Text extraction (the try block of upload_resume).                       *)
(***************************************************************************)
NL == <<"\n">>

\* pytesseract.image_to_string raised
OcrError == <<"OcrError">>

\* a faulty test for a page without text: `if page_text.strip():`
NoTextLayerStripped(page_text) == IsBlank(page_text)

\* `if page_text:` is false: extract_text() gave None or ""
NoTextLayer(page_text) == page_text = <<>>

\* the loop over pdf.pages from page i on: the text so far, the pages OCR
\* was run on, and whether an exception left the loop
RECURSIVE ExtractPages(_, _, _, _)
ExtractPages(pages, i, text, ocr) ==
  IF i > Len(pages) THEN [raised |-> FALSE, text |-> text, ocr |-> ocr]
  ELSE IF ~NoTextLayer(pages[i].layer)
    THEN ExtractPages(pages, i + 1, text \o pages[i].layer \o NL, ocr)
  ELSE IF pages[i].ocr = OcrError
    THEN [raised |-> TRUE, text |-> text, ocr |-> Append(ocr, i)]
  ELSE IF ~IsBlank(pages[i].ocr)
    THEN ExtractPages(pages, i + 1, text \o pages[i].ocr \o NL, Append(ocr, i))
  ELSE ExtractPages(pages, i + 1, text, Append(ocr, i))

\* the loops over doc.paragraphs and over the cells of doc.tables
RECURSIVE NonBlankLines(_)
NonBlankLines(texts) ==
  IF texts = <<>> THEN <<>>
  ELSE (IF IsBlank(Head(texts)) THEN <<>> ELSE Head(texts) \o NL)
       \o NonBlankLines(Tail(texts))

\* bytes.decode('utf-8', errors='ignore'): undecodable bytes are dropped
InvalidByte == "xFF"

DecodeBytes(data) == SelectSeq(data, LAMBDA b : b # InvalidByte)

\* the bytes of a well-formed PDF or DOCX file read as text
Decode(content) ==
  CASE content.kind = "bytes" -> DecodeBytes(content.data)
    [] content.kind = "pdf" -> <<"%", "P", "D", "F">>
    [] content.kind = "docx" -> <<"P", "K">>

\* the branch on the file name's extension
Extract(filename, content) ==
  IF EndsWith(filename, <<".", "p", "d", "f">>)
    THEN IF content.kind = "pdf"
           THEN ExtractPages(content.pages, 1, <<>>, <<>>)
           \* pdfplumber.open raises on bytes that are no PDF
           ELSE [raised |-> TRUE, text |-> <<>>, ocr |-> <<>>]
  ELSE IF EndsWith(filename, <<".", "d", "o", "c", "x">>)
    THEN IF content.kind = "docx"
           THEN [raised |-> FALSE,
                 text |-> NonBlankLines(content.paragraphs)
                          \o NonBlankLines(content.cells),
                 ocr |-> <<>>]
           \* Document raises on bytes that are no DOCX (zip) file
           ELSE [raised |-> TRUE, text |-> <<>>, ocr |-> <<>>]
  ELSE [raised |-> FALSE, text |-> Decode(content), ocr |-> <<>>]

ErrNoFile == "No resume file uploaded"
ErrNoText == "No text extracted from resume"
ErrExtract == "Failed to extract text"
ErrJob == "Job title or description missing"
ErrMatch == "Resume or job description missing"
ErrMulti == "Resume or job descriptions missing"
ErrSummary == "Resume text missing"
ErrServer == "Internal Server Error"

\* a faulty upload_resume: the row is saved before the text is looked at
UploadSavesFirst(file) ==
  IF ~file.present
    THEN [response |-> [status |-> 400, error |-> ErrNoFile],
          rows |-> {}, ocr |-> <<>>]
  ELSE LET filename == Lower(file.filename)
           got == Extract(filename, file.content)
           new_resume == [id |-> NextId(resumes), filename |-> filename,
                          content |-> got.text]
       IN IF got.raised
            THEN [response |-> [status |-> 500, error |-> ErrExtract],
                  rows |-> {}, ocr |-> got.ocr]
          ELSE IF IsBlank(got.text)
            THEN [response |-> [status |-> 500, error |-> ErrNoText],
                  rows |-> {new_resume}, ocr |-> got.ocr]
          ELSE [response |-> [status |-> 200, resume_text |-> got.text,
                              resume_id |-> new_resume.id],
                rows |-> {new_resume}, ocr |-> got.ocr]

\* a faulty upload_resume: the test `if not text.strip()` is missing
UploadWithoutBlankCheck(file) ==
  IF ~file.present
    THEN [response |-> [status |-> 400, error |-> ErrNoFile],
          rows |-> {}, ocr |-> <<>>]
  ELSE LET filename == Lower(file.filename)
           got == Extract(filename, file.content)
           new_resume == [id |-> NextId(resumes), filename |-> filename,
                          content |-> got.text]
       IN IF got.raised
            THEN [response |-> [status |-> 500, error |-> ErrExtract],
                  rows |-> {}, ocr |-> got.ocr]
          ELSE [response |-> [status |-> 200, resume_text |-> got.text,
                              resume_id |-> new_resume.id],
                rows |-> {new_resume}, ocr |-> got.ocr]

\* upload_resume: the response, the rows added to Resume and the OCR calls
UploadOutcome(file) ==
  IF ~file.present
    THEN [response |-> [status |-> 400, error |-> ErrNoFile],
          rows |-> {}, ocr |-> <<>>]
  ELSE LET filename == Lower(file.filename)
           got == Extract(filename, file.content)
           new_resume == [id |-> NextId(resumes), filename |-> filename,
                          content |-> got.text]
       IN IF got.raised
            THEN [response |-> [status |-> 500, error |-> ErrExtract],
                  rows |-> {}, ocr |-> got.ocr]
          ELSE IF IsBlank(got.text)
            THEN [response |-> [status |-> 500, error |-> ErrNoText],
                  rows |-> {}, ocr |-> got.ocr]
          ELSE [response |-> [status |-> 200, resume_text |-> got.text,
                              resume_id |-> new_resume.id],
                rows |-> {new_resume}, ocr |-> got.ocr]

upload_resume(file) ==
  LET out == UploadOutcome(file)
  IN /\ Cardinality(resumes) < MaxResumes
     /\ resumes' = resumes \cup out.rows
     /\ response' = out.response
     /\ ocr_calls' = out.ocr
     /\ request' = [endpoint |-> "upload_resume", file |-> file]
     /\ UNCHANGED <<jobs, comparisons, foreign_keys>>

(***************************************************************************)
(* /add_job                                                                *)
(***************************************************************************)
\* a faulty add_job: the row is saved before the fields are looked at
AddJobSavesFirst(title, description) ==
  LET new_job == [id |-> NextId(jobs), title |-> title,
                  description |-> description]
  IN IF title = <<>> \/ description = <<>>
       THEN [response |-> [status |-> 400, error |-> ErrJob],
             rows |-> {new_job}]
       ELSE [response |-> [status |-> 200, job_id |-> new_job.id,
                           title |-> title],
             rows |-> {new_job}]

\* add_job: the response and the rows added to Job
AddJobOutcome(title, description) ==
  IF title = <<>> \/ description = <<>>
    THEN [response |-> [status |-> 400, error |-> ErrJob], rows |-> {}]
  ELSE LET new_job == [id |-> NextId(jobs), title |-> title,
                       description |-> description]
       IN [response |-> [status |-> 200, job_id |-> new_job.id,
                         title |-> title],
           rows |-> {new_job}]

add_job(title, description) ==
  LET out == AddJobOutcome(title, description)
  IN /\ Cardinality(jobs) < MaxJobs
     /\ jobs' = jobs \cup out.rows
     /\ response' = out.response
     /\ ocr_calls' = <<>>
     /\ request' = [endpoint |-> "add_job", title |-> title,
                    description |-> description]
     /\ UNCHANGED <<resumes, comparisons, foreign_keys>>

(***************************************************************************)
(* The Comparison table's constraints, and /match and /match_multiple.     *)
(***************************************************************************)
Comma == <<",">>

\* a faulty schema: the two columns are nullable
NotNullOff(row) == TRUE

\* nullable=False on Comparison.resume_id and Comparison.job_id
NotNullOk(row) == row.resume_id # None /\ row.job_id # None

\* db.ForeignKey('resume.id') and db.ForeignKey('job.id'), where the
\* database enforces foreign keys
ForeignKeysOk(row, resume_rows, job_rows) ==
  foreign_keys =>
    row.resume_id \in Ids(resume_rows) /\ row.job_id \in Ids(job_rows)

\* db.session.commit() of a new Comparison succeeds
CommitOk(row, resume_rows, job_rows) ==
  NotNullOk(row) /\ ForeignKeysOk(row, resume_rows, job_rows)

\* a faulty Comparison(...): the two ids are passed in the wrong order
ComparisonRowSwapped(table, resume_id, job_id, score, keywords) ==
  [id |-> NextId(table), resume_id |-> job_id, job_id |-> resume_id,
   score |-> score, keywords |-> Join(keywords, Comma)]

\* Comparison(resume_id=..., job_id=..., score=..., keywords=",".join(...))
\* with the id the table gives it
ComparisonRow(table, resume_id, job_id, score, keywords) ==
  [id |-> NextId(table), resume_id |-> resume_id, job_id |-> job_id,
   score |-> score, keywords |-> Join(keywords, Comma)]

\* the truth value of an optional integer of the JSON body
Truthy(v) == v # None /\ v # 0

\* `if resume_id and job_id:`
BothGiven(resume_id, job_id) == Truthy(resume_id) /\ Truthy(job_id)

\* match_resume: the possible outcomes (one per order of the keywords):
\* the response and the rows added to Comparison
MatchOutcomes(resume_text, job_text, resume_id, job_id) ==
  IF resume_text = <<>> \/ job_text = <<>>
    THEN {[response |-> [status |-> 400, error |-> ErrMatch], rows |-> {}]}
  ELSE LET got == Similarity(resume_text, job_text)
           score == got.score
       IN IF got.raised
            THEN {[response |-> [status |-> 500, error |-> ErrServer],
                   rows |-> {}]}
          ELSE
          {LET comparison == ComparisonRow(comparisons, resume_id, job_id,
                                           score, keywords)
               ok == [response |-> [status |-> 200, score |-> score,
                                    keywords |-> keywords],
                      rows |-> {}]
           IN IF ~BothGiven(resume_id, job_id) THEN ok
              ELSE IF ~CommitOk(comparison, resumes, jobs)
                THEN [response |-> [status |-> 500, error |-> ErrServer],
                      rows |-> {}]
              ELSE [ok EXCEPT !.rows = {comparison}]
           : keywords \in got.keywords}

match_resume(resume_text, job_text, resume_id, job_id) ==
  \E out \in MatchOutcomes(resume_text, job_text, resume_id, job_id) :
     /\ Cardinality(comparisons) < MaxComparisons
     /\ comparisons' = comparisons \cup out.rows
     /\ response' = out.response
     /\ ocr_calls' = <<>>
     /\ request' = [endpoint |-> "match", resume |-> resume_text,
                    job |-> job_text, resume_id |-> resume_id,
                    job_id |-> job_id]
     /\ UNCHANGED <<resumes, jobs, foreign_keys>>

\* the loop of match_multiple from job i on, over the tables as committed
\* so far: the possible outcomes.  A job without a description raises
\* before anything is written for it; a Comparison the database refuses
\* raises after the job's own row is committed.
RECURSIVE MatchLoop(_, _, _, _, _, _)
MatchLoop(resume_text, items, resume_id, i, db, results) ==
  IF i > Len(items)
    THEN {[response |-> [status |-> 200, results |-> results],
           jobs |-> db.jobs, comparisons |-> db.comparisons]}
  ELSE IF items[i].description = Missing
          \/ Similarity(resume_text, items[i].description).raised
    THEN {[response |-> [status |-> 500, error |-> ErrServer],
           jobs |-> db.jobs, comparisons |-> db.comparisons]}
  ELSE LET job == items[i]
           got == Similarity(resume_text, job.description)
           score == got.score
           new_job == [id |-> NextId(db.jobs), title |-> job.title,
                       description |-> job.description]
           job_rows == db.jobs \cup {new_job}
       IN UNION {
            LET comparison == ComparisonRow(db.comparisons, resume_id,
                                            new_job.id, score, keywords)
            IN IF ~CommitOk(comparison, resumes, job_rows)
                 THEN {[response |-> [status |-> 500, error |-> ErrServer],
                        jobs |-> job_rows, comparisons |-> db.comparisons]}
               ELSE MatchLoop(resume_text, items, resume_id, i + 1,
                              [jobs |-> job_rows,
                               comparisons |-> db.comparisons \cup {comparison}],
                              Append(results, [title |-> job.title,
                                               score |-> score,
                                               keywords |-> keywords]))
            : keywords \in got.keywords}

\* a faulty match_multiple: the two tables are written anew
MatchMultipleFromEmpty(resume_text, items, resume_id) ==
  IF resume_text = <<>> \/ items = <<>>
    THEN {[response |-> [status |-> 400, error |-> ErrMulti],
           jobs |-> jobs, comparisons |-> comparisons]}
  ELSE MatchLoop(resume_text, items, resume_id, 1,
                 [jobs |-> {}, comparisons |-> {}], <<>>)

\* match_multiple: the possible outcomes: the response and the two tables
MatchMultipleOutcomes(resume_text, items, resume_id) ==
  IF resume_text = <<>> \/ items = <<>>
    THEN {[response |-> [status |-> 400, error |-> ErrMulti],
           jobs |-> jobs, comparisons |-> comparisons]}
  ELSE MatchLoop(resume_text, items, resume_id, 1,
                 [jobs |-> jobs, comparisons |-> comparisons], <<>>)

match_multiple(resume_text, items, resume_id) ==
  \E out \in MatchMultipleOutcomes(resume_text, items, resume_id) :
     /\ Cardinality(jobs) + Len(items) <= MaxJobs
     /\ Cardinality(comparisons) + Len(items) <= MaxComparisons
     /\ jobs' = out.jobs
     /\ comparisons' = out.comparisons
     /\ response' = out.response
     /\ ocr_calls' = <<>>
     /\ request' = [endpoint |-> "match_multiple", resume |-> resume_text,
                    jobs |-> items, resume_id |-> resume_id]
     /\ UNCHANGED <<resumes, foreign_keys>>

(***************************************************************************)
(* /resume_summary and the read-only routes.                               *)
(***************************************************************************)
\* skills_list, cut to the skills the model's texts can name
skills_list == << <<"s", "q", "l">>, <<"a", "w", "s">>, <<"s", "e", "o">> >>

SummaryOutcome(resume) ==
  IF resume = <<>> THEN [status |-> 400, error |-> ErrSummary]
  ELSE LET resume_lower == Lower(resume)
           matched_skills ==
             SelectSeq(skills_list, LAMBDA skill : Contains(resume_lower, skill))
       IN IF matched_skills # <<>>
            THEN [status |-> 200,
                  summary |-> <<"This resume highlights skills in: ",
                                Join(matched_skills, <<",", " ">>)>>]
            ELSE [status |-> 200,
                  summary |-> <<"No specific technical skills detected in the resume.">>]

\* a handler that writes nothing
Answer(endpoint, body) ==
  /\ response' = body
  /\ request' = [endpoint |-> endpoint]
  /\ ocr_calls' = <<>>
  /\ UNCHANGED <<resumes, jobs, comparisons, foreign_keys>>

resume_summary(resume) ==
  /\ response' = SummaryOutcome(resume)
  /\ request' = [endpoint |-> "resume_summary", resume |-> resume]
  /\ ocr_calls' = <<>>
  /\ UNCHANGED <<resumes, jobs, comparisons, foreign_keys>>

\* the length the list routes cut a text to
ListCut == 200

get_resumes ==
  Answer("resumes",
         [status |-> 200,
          rows |-> {[id |-> r.id, filename |-> r.filename,
                     content |-> Truncate(r.content, ListCut)] : r \in resumes}])

get_jobs ==
  Answer("jobs",
         [status |-> 200,
          rows |-> {[id |-> j.id, title |-> j.title,
                     description |-> Truncate(j.description, ListCut)] : j \in jobs}])

get_comparisons ==
  Answer("comparisons", [status |-> 200, rows |-> comparisons])

ping == Answer("ping", [status |-> 200, body |-> "ok"])

home == Answer("home", [status |-> 200,
                        message |-> "Resume Screener Backend is running!"])

\* the rules of app.url_map
Rules == {"/ping", "/", "/upload_resume", "/add_job", "/match",
          "/match_multiple", "/resume_summary", "/resumes", "/jobs",
          "/comparisons", "/routes"}

list_routes == Answer("routes", [status |-> 200, routes |-> Rules])

(***************************************************************************)
(* The requests the model sends.                                           *)
(***************************************************************************)
CvTxt == <<"c", "v", ".", "t", "x", "t">>
CvPdf == <<"C", "V", ".", "P", "D", "F">>
CvDocx == <<"c", "v", ".", "d", "o", "c", "x">>

File(filename, content) ==
  [present |-> TRUE, filename |-> filename, content |-> content]

Bytes(data) == [kind |-> "bytes", data |-> data]

Pdf(pages) == [kind |-> "pdf", pages |-> pages]

Docx(paragraphs, cells) ==
  [kind |-> "docx", paragraphs |-> paragraphs, cells |-> cells]

ZeroBytes == Bytes(<<>>)

\* a page with a text layer, one whose text layer is a single space, a
\* scanned page, a scanned page OCR reads nothing from, and a scanned page
\* OCR fails on
TextPage == [layer |-> Sql, ocr |-> <<"x">>]
SpacePage == [layer |-> <<" ">>, ocr |-> <<"x">>]
ScanPage == [layer |-> <<>>, ocr |-> Aws]
EmptyScanPage == [layer |-> <<>>, ocr |-> <<" ">>]
BrokenScanPage == [layer |-> <<>>, ocr |-> OcrError]

PageKinds == {TextPage, SpacePage, ScanPage, EmptyScanPage, BrokenScanPage}

\* the longest PDF, in pages
MaxPages == 2

RECURSIVE PagesOf(_)
PagesOf(n) ==
  IF n = 0 THEN {<<>>}
  ELSE {Append(pages, page) : pages \in PagesOf(n - 1), page \in PageKinds}

\* every PDF of at most MaxPages pages
PageLists == UNION {PagesOf(n) : n \in 0..MaxPages}

\* a few uploads of every kind
Files ==
  {NoFile,
   File(CvTxt, Bytes(Sql \o <<InvalidByte>>)),
   File(CvPdf, ZeroBytes)}

MoreFiles ==
  {File(CvTxt, ZeroBytes),
   File(CvDocx, ZeroBytes),
   File(CvTxt, Bytes(<<" ", "\n">>)),
   File(CvTxt, Pdf(<<TextPage>>)),
   File(CvPdf, Bytes(Sql)),
   File(CvDocx, Bytes(Sql)),
   File(CvDocx, Docx(<<Sql, <<" ">>>>, <<Aws>>)),
   File(CvDocx, Docx(<<>>, <<Aws, <<>>>>)),
   File(CvDocx, Docx(<<<<" ">>>>, <<>>)),
   File(CvPdf, Pdf(<<ScanPage, BrokenScanPage>>))}

Titles == {<<>>, Dev}

Descriptions == {<<>>, SqlCommaAws}

ResumeTexts == {<<>>, SqlAndAws}

JobTexts == {<<>>, SqlCommaAnd}

ResumeIdValues == {None, 1, 2}

JobIdValues == {None, 1}

Item(title, description) == [title |-> title, description |-> description]

JobLists ==
  {<<>>,
   <<Item(Dev, SqlCommaAws)>>,
   <<Item(Dev, SqlCommaAws), Item(Ops, SqlCommaAnd)>>,
   <<Item(Dev, SqlCommaAws), Item(Ops, Missing)>>}

JobItems == {Item(Dev, SqlCommaAws), Item(Ops, SqlCommaAnd),
             Item(Dev, And), Item(Ops, Missing)}

\* the longest list of jobs of a /match_multiple request
MaxItems == 2

RECURSIVE ItemsOf(_)
ItemsOf(n) ==
  IF n = 0 THEN {<<>>}
  ELSE {Append(items, item) : items \in ItemsOf(n - 1), item \in JobItems}

\* every list of at most MaxItems jobs
ItemLists == UNION {ItemsOf(n) : n \in 0..MaxItems}

(***************************************************************************)
(* The specifications.  Spec sends a few requests of every kind to every   *)
(* route.  SpecUpload and SpecMatch look at the requests that write one    *)
(* table: they send the first request that writes it in every shape up to  *)
(* the bounds.                                                             *)
(***************************************************************************)
Init ==
  /\ resumes = {}
  /\ jobs = {}
  /\ comparisons = {}
  /\ foreign_keys \in BOOLEAN
  /\ request = [endpoint |-> "none"]
  /\ response = [status |-> 0]
  /\ ocr_calls = <<>>

Next ==
  \/ \E file \in Files : upload_resume(file)
  \/ \E title \in Titles, description \in Descriptions :
        add_job(title, description)
  \/ \E resume_text \in ResumeTexts, job_text \in JobTexts,
        resume_id \in ResumeIdValues, job_id \in JobIdValues :
        match_resume(resume_text, job_text, resume_id, job_id)
  \/ \E resume_text \in ResumeTexts, items \in JobLists,
        resume_id \in {None, 1} :
        match_multiple(resume_text, items, resume_id)
  \/ \E resume \in ResumeTexts : resume_summary(resume)
  \/ get_resumes
  \/ get_jobs
  \/ get_comparisons
  \/ ping
  \/ home
  \/ list_routes

Spec == Init /\ [][Next]_vars

NextUpload ==
  \/ \E file \in Files \cup MoreFiles : upload_resume(file)
  \/ /\ resumes = {}
     /\ \E pages \in PageLists : upload_resume(File(CvPdf, Pdf(pages)))
  \/ get_resumes

SpecUpload == Init /\ [][NextUpload]_vars

NextMatch ==
  \/ resumes = {} /\ upload_resume(File(CvTxt, Bytes(Sql)))
  \/ jobs = {} /\ add_job(Dev, SqlCommaAws)
  \/ /\ resumes # {} /\ jobs # {} /\ comparisons = {}
     /\ \E resume_text \in AllTexts, job_text \in AllTexts :
           match_resume(resume_text, job_text, 1, 1)
  \/ /\ resumes # {} /\ jobs = {} /\ comparisons = {}
     /\ \E resume_text \in {SqlAndAws, And}, items \in ItemLists,
           resume_id \in {None, 1} :
           match_multiple(resume_text, items, resume_id)
  \/ get_jobs
  \/ get_comparisons

SpecMatch == Init /\ [][NextMatch]_vars

(***************************************************************************)
(* The properties.                                                         *)
(***************************************************************************)
IsUpload == request.endpoint = "upload_resume" /\ request.file.present

\* the row of a table with the highest id: the one written last
LastRow(table) == CHOOSE r \in table : \A q \in table : q.id <= r.id

\* a comma-joined field read back as the set of its entries
RECURSIVE FieldsFrom(_, _, _)
FieldsFrom(s, i, cur) ==
  IF i > Len(s) THEN {cur}
  ELSE IF s[i] = "," THEN {cur} \cup FieldsFrom(s, i + 1, <<>>)
  ELSE FieldsFrom(s, i + 1, Append(cur, s[i]))

ReadKeywords(field) == IF field = <<>> THEN {} ELSE FieldsFrom(field, 1, <<>>)

\* C1: a request to /match without a resume_id or without a job_id, and a
\* request to /match_multiple without a resume_id, leaves the Comparison
\* table as it was; the table changes only by a /match request with both
\* ids or a /match_multiple request with a resume_id.
C1_ComparisonNeedsBothReferences ==
  [][/\ (\/ /\ request'.endpoint = "match"
            /\ (request'.resume_id = None \/ request'.job_id = None)
         \/ /\ request'.endpoint = "match_multiple"
            /\ request'.resume_id = None)
        => comparisons' = comparisons
     /\ comparisons' # comparisons
        => \/ /\ request'.endpoint = "match"
              /\ request'.resume_id # None /\ request'.job_id # None
           \/ /\ request'.endpoint = "match_multiple"
              /\ request'.resume_id # None]_vars

\* a /match_multiple request without resume_id that got as far as writing
\* the row of its first job
C1_Witness ==
  /\ request.endpoint = "match_multiple"
  /\ request.resume_id = None
  /\ response.status = 500
  /\ \E j \in jobs : j.title = request.jobs[1].title
                     /\ j.description = request.jobs[1].description

\* C2: a request answered with HTTP 400 leaves the three tables as they
\* were.
C2_BadRequestWritesNothing ==
  [][response'.status = 400 => UNCHANGED tables]_vars

\* a 400 answer of /match_multiple over tables that hold rows
C2_Witness ==
  /\ response.status = 400
  /\ request.endpoint = "match_multiple"
  /\ resumes # {} /\ jobs # {} /\ comparisons # {}

\* C3: an upload answered with HTTP 500 leaves the Resume table as it was;
\* the table changes only by an upload answered with 200, which adds
\* exactly one row, whose content is the returned resume_text and whose id
\* is the returned resume_id.
C3_UploadStoresOnlyOnSuccess ==
  [][/\ (request'.endpoint = "upload_resume" /\ response'.status = 500)
          => resumes' = resumes
     /\ resumes' # resumes
          => request'.endpoint = "upload_resume" /\ response'.status = 200
     /\ (request'.endpoint = "upload_resume" /\ response'.status = 200)
          => \E r \in resumes' :
                /\ r \notin resumes
                /\ resumes' = resumes \cup {r}
                /\ r.content = response'.resume_text
                /\ r.id = response'.resume_id
                /\ r.id \notin Ids(resumes)]_vars

\* an upload that failed after OCR had run, over a table that holds a row
C3_Witness ==
  /\ IsUpload
  /\ response.status = 500
  /\ response.error = ErrExtract
  /\ ocr_calls # <<>>
  /\ resumes # {}

IsZeroByteUpload ==
  /\ IsUpload
  /\ request.file.content.kind = "bytes"
  /\ request.file.content.data = <<>>

ParsedExtension(filename) ==
  \/ EndsWith(Lower(filename), <<".", "p", "d", "f">>)
  \/ EndsWith(Lower(filename), <<".", "d", "o", "c", "x">>)

\* C4 as claimed: a zero-byte upload of any extension is answered with 500
\* and "No text extracted from resume".
C4_ZeroByteIsNoText ==
  IsZeroByteUpload => response.status = 500 /\ response.error = ErrNoText

\* C4 as amended: a zero-byte upload is answered with 500, never 200: with
\* "No text extracted from resume" when the name ends in neither .pdf nor
\* .docx, and with "Failed to extract text" when it does (the parser raises
\* on the empty file).
C4_ZeroByteIs500 ==
  IsZeroByteUpload =>
    /\ response.status = 500
    /\ response.error = IF ParsedExtension(request.file.filename)
                          THEN ErrExtract ELSE ErrNoText

\* a zero-byte .docx upload answered with the generic error
C4_Witness ==
  /\ IsZeroByteUpload
  /\ EndsWith(request.file.filename, <<".", "d", "o", "c", "x">>)
  /\ response.error = ErrExtract

UniqueIds(table) == \A r \in table, q \in table : r.id = q.id => r = q

\* C5: every row of the three tables stays, with its id and its values, and
\* no id is given twice.
C5_AppendOnly ==
  [][/\ resumes \subseteq resumes'
     /\ jobs \subseteq jobs'
     /\ comparisons \subseteq comparisons'
     /\ UniqueIds(resumes') /\ UniqueIds(jobs') /\ UniqueIds(comparisons')]_vars

\* all three tables are full
C5_Witness ==
  /\ Cardinality(resumes) = MaxResumes
  /\ Cardinality(jobs) = MaxJobs
  /\ Cardinality(comparisons) = MaxComparisons

\* C6: the keywords /match returns are the common words of the two texts,
\* the same set for (B, A), and the keywords field of the Comparison it
\* stores, read as a comma-separated list, holds only words of both texts.
C6_KeywordsAreCommonWords ==
  (request.endpoint = "match" /\ response.status = 200) =>
    LET A == request.resume
        B == request.job
        kw == Range(response.keywords)
    IN /\ kw \subseteq WordSet(A)
       /\ kw \subseteq WordSet(B)
       /\ kw = WordSet(A) \cap WordSet(B)
       /\ \E other \in calculate_similarity_with_keywords(B, A).keywords :
             Range(other) = kw
       /\ (BothGiven(request.resume_id, request.job_id) =>
             /\ ReadKeywords(LastRow(comparisons).keywords) \subseteq WordSet(A)
             /\ ReadKeywords(LastRow(comparisons).keywords) \subseteq WordSet(B))

\* the part of C6 about the function alone: it holds
C6_ReturnedKeywordsAreCommonWords ==
  (request.endpoint = "match" /\ response.status = 200) =>
    LET A == request.resume
        B == request.job
        kw == Range(response.keywords)
    IN /\ kw \subseteq WordSet(A)
       /\ kw \subseteq WordSet(B)
       /\ \A w \in kw : \E i \in DOMAIN Split(Lower(A)) : Split(Lower(A))[i] = w
       /\ \A i \in DOMAIN Split(Lower(A)) :
             Split(Lower(A))[i] \in Range(Split(Lower(B)))
                => Split(Lower(A))[i] \in kw
       /\ \E other \in calculate_similarity_with_keywords(B, A).keywords :
             Range(other) = kw

MaxScore == Hundredths * ScoreUnit

\* C7: the score of every stored Comparison lies in [0, 100] and is a whole
\* number of hundredths.
C7_ScoreInRangeAndRounded ==
  \A c \in comparisons :
     /\ 0 <= c.score
     /\ c.score <= MaxScore
     /\ c.score % ScoreUnit = 0

\* a stored score strictly between 0 and 100
C7_Witness == \E c \in comparisons : 0 < c.score /\ c.score < MaxScore

IsPdfUpload ==
  /\ IsUpload
  /\ EndsWith(Lower(request.file.filename), <<".", "p", "d", "f">>)
  /\ request.file.content.kind = "pdf"

\* what one page adds to the text
PageText(page) ==
  IF page.layer # <<>> THEN page.layer \o NL
  ELSE IF ~IsBlank(page.ocr) THEN page.ocr \o NL
  ELSE <<>>

RECURSIVE Concat(_)
Concat(texts) == IF texts = <<>> THEN <<>> ELSE Head(texts) \o Concat(Tail(texts))

\* C8: when the extraction of a PDF does not raise, OCR was run on exactly
\* the pages without a text layer, once each and in page order, and the
\* text is the pages' texts in page order, each followed by a newline (an
\* OCR result only when it is not blank); when it raises, OCR was still run
\* on no page with a text layer.
C8_OcrOnlyWithoutTextLayer ==
  IsPdfUpload =>
    LET pages == request.file.content.pages
        bare == {i \in DOMAIN pages : pages[i].layer = <<>>}
        text == Concat([i \in DOMAIN pages |-> PageText(pages[i])])
        raised == response.status = 500 /\ response.error = ErrExtract
    IN /\ Range(ocr_calls) \subseteq bare
       /\ \A i, j \in DOMAIN ocr_calls : i < j => ocr_calls[i] < ocr_calls[j]
       /\ ~raised => Range(ocr_calls) = bare
       /\ raised <=> \E i \in bare : pages[i].ocr = OcrError
       /\ response.status = 200 => response.resume_text = text
       /\ (response.status = 500 /\ ~raised) => IsBlank(text)
       /\ (bare = {}) => ocr_calls = <<>>

\* a PDF of a page with a text layer and a scanned page, stored
C8_Witness ==
  /\ IsPdfUpload
  /\ response.status = 200
  /\ Len(request.file.content.pages) = 2
  /\ ocr_calls = <<2>>

\* C9: a /match_multiple request over n jobs answered with 200 returns n
\* results in the order of the jobs and adds n Job rows and n Comparison
\* rows, the i-th Comparison naming the i-th new Job and carrying the i-th
\* score; one answered with 500 failed at some job k and leaves the rows of
\* the jobs before k, and at most the Job row of job k, written.
C9_MatchMultipleWritesInOrder ==
  [][(request'.endpoint = "match_multiple" /\ response'.status # 400) =>
       LET items == request'.jobs
           n == Len(items)
           new_jobs == jobs' \ jobs
           new_comparisons == comparisons' \ comparisons
           job_id(i) == NextId(jobs) + i - 1
           comparison_id(i) == NextId(comparisons) + i - 1
           JobWritten(i) ==
             \E j \in new_jobs : /\ j.id = job_id(i)
                                 /\ j.title = items[i].title
                                 /\ j.description = items[i].description
           ComparisonWritten(i, score) ==
             \E c \in new_comparisons : /\ c.id = comparison_id(i)
                                        /\ c.job_id = job_id(i)
                                        /\ c.resume_id = request'.resume_id
                                        /\ c.score = score
       IN /\ jobs \subseteq jobs' /\ comparisons \subseteq comparisons'
          /\ response'.status = 200 =>
               /\ Len(response'.results) = n
               /\ Cardinality(new_jobs) = n
               /\ Cardinality(new_comparisons) = n
               /\ \A i \in 1..n :
                     /\ response'.results[i].title = items[i].title
                     /\ JobWritten(i)
                     /\ ComparisonWritten(i, response'.results[i].score)
          /\ response'.status = 500 =>
               \E k \in 1..n :
                  /\ Cardinality(new_comparisons) = k - 1
                  /\ Cardinality(new_jobs) \in {k - 1, k}
                  /\ \A i \in 1..(k - 1) :
                        /\ JobWritten(i)
                        /\ \E c \in new_comparisons : /\ c.id = comparison_id(i)
                                                      /\ c.job_id = job_id(i)
                  /\ Cardinality(new_jobs) = k => JobWritten(k)]_vars

\* a request over two jobs that failed at the second: the first job's two
\* rows are written
C9_Witness ==
  /\ request.endpoint = "match_multiple"
  /\ Len(request.jobs) = 2
  /\ request.jobs[2].description = Missing
  /\ response.status = 500
  /\ \E j \in jobs, c \in comparisons :
        j.title = request.jobs[1].title /\ c.job_id = j.id

\* C10: every stored Comparison names a stored Resume and a stored Job.
C10_ComparisonsReferToRows ==
  \A c \in comparisons :
     c.resume_id \in Ids(resumes) /\ c.job_id \in Ids(jobs)

=============================================================================
